---- MODULE Spec2Model ----
(***************************************************************************)
(* Model of the fixed-width record loader (src/hot_ret_parser.py).         *)
(*                                                                         *)
(* Text (lines, field values, file names, registry keys) is modelled as    *)
(* sequences of one-character strings, so that slicing, trimming, prefix   *)
(* tests and concatenation are computed as the Python code computes them.  *)
(* Table names and column names are only compared and tested for           *)
(* truthiness by the code; they are plain strings, with SQL NULL / Python  *)
(* None written NoneName.                                                  *)
(***************************************************************************)
EXTENDS Integers, Sequences, FiniteSets, Bags, TLC

\* ------------------------------------------------------------------ bounds
\* Most lines a staged file holds.
MaxLines == 2
\* Most transient prefixes stacked in front of a base name (SpecNorm).
MaxPrefixDepth == 2
\* Longest line and largest column offset / length tried by SpecParse.
MaxLineLen == 3

\* ------------------------------------------------------- program constants
\* ThreadPoolExecutor(max_workers=8)
MaxWorkers == 8
\* identify_table: extract_field(line, 0, 3)
SourceCodePos == 0
SourceCodeLen == 3
\* identify_table: extract_field(line, 11, 2)
SourceIdPos == 11
SourceIdLen == 2

\* ------------------------------------------------------------ Python text
Min(a, b) == IF a < b THEN a ELSE b
Max(a, b) == IF a > b THEN a ELSE b

\* Characters str.strip() removes.
Whitespace == {" ", "\n", "\t"}

\* s[a:b] with Python's clamping and negative-index rules.
PyIndex(i, n) == IF i < 0 THEN Max(i + n, 0) ELSE Min(i, n)
PySlice(s, a, b) ==
    LET lo == PyIndex(a, Len(s))
        hi == PyIndex(b, Len(s))
    IN  IF lo < hi THEN SubSeq(s, lo + 1, hi) ELSE <<>>

RECURSIVE LStrip(_)
LStrip(s) == IF s # <<>> /\ Head(s) \in Whitespace THEN LStrip(Tail(s)) ELSE s

RECURSIVE RStrip(_)
RStrip(s) ==
    IF s # <<>> /\ s[Len(s)] \in Whitespace
    THEN RStrip(SubSeq(s, 1, Len(s) - 1))
    ELSE s

\* str.strip()
Strip(s) == RStrip(LStrip(s))

\* str.startswith(prefix)
StartsWith(s, prefix) ==
    Len(s) >= Len(prefix) /\ SubSeq(s, 1, Len(prefix)) = prefix

\* ---------------------------------------------------------- extract_field
extract_field(line, start_pos, length) ==
    Strip(PySlice(line, start_pos, start_pos + length))

\* ------------------------------------------------------------- the registry
NoneName == "<None>"
UnknownTable == "Unknown Table"

\* Python truthiness of a table name (None and "" are falsy).
Truthy(name) == name \notin {"", NoneName}

\* Mutant of identify_table: the key is the line's first five characters.
identify_table_Leading5(line, table_map) ==
    LET key == extract_field(line, 0, SourceCodeLen + SourceIdLen)
    IN  IF key \in DOMAIN table_map
        THEN table_map[key]
        ELSE [src_table |-> UnknownTable, parsed_data |-> UnknownTable]

\* table_map.get(key, {"src_table": "Unknown Table", "parsed_data": "Unknown Table"})
identify_table(line, table_map) ==
    LET source_code == extract_field(line, SourceCodePos, SourceCodeLen)
        source_id   == extract_field(line, SourceIdPos, SourceIdLen)
        key         == source_code \o source_id
    IN  IF key \in DOMAIN table_map
        THEN table_map[key]
        ELSE [src_table |-> UnknownTable, parsed_data |-> UnknownTable]

\* ------------------------------------------------------ column definitions
\* A numeric cell after pd.to_numeric(errors='coerce'): <<>> is NaN, <<n>> is n.
NaN == <<>>
Num(n) == <<n>>
IsNull(cell) == cell = NaN

\* A raw cell of the metadata store: a number, SQL NULL, or non-numeric text.
RawNum(n) == [kind |-> "num", n |-> n]
RawNull == [kind |-> "null", n |-> 0]
RawText == [kind |-> "text", n |-> 0]
\* The text "inf", which pd.to_numeric reads as the float infinity.
RawInf == [kind |-> "inf", n |-> 0]

\* The float infinity as a numeric cell: neither NaN nor a finite number.
Inf == << 0, 0 >>
IsInf(cell) == Len(cell) = 2

\* pd.to_numeric(..., errors='coerce') on one cell.
to_numeric(raw) ==
    IF raw.kind = "num" THEN Num(raw.n) ELSE IF raw.kind = "inf" THEN Inf ELSE NaN

Col(name, start, length) ==
    [db_element_name |-> name, start_pstn |-> start, element_lgth |-> length]

\* ------------------------------------------------------------- parse_line
\* Mutant of parse_row: the upper bound of the range is not tested.
parse_row_NoUpperBound(line, row, record) ==
    LET field_name == row.db_element_name
    IN  IF IsNull(row.start_pstn) \/ IsNull(row.element_lgth)
        THEN record
        ELSE LET start_pos == row.start_pstn[1] - 1
                 length    == row.element_lgth[1]
             IN  IF start_pos < 0
                 THEN record
                 ELSE (field_name :> extract_field(line, start_pos, length)) @@ record

\* One iteration of the loop over metadata.iterrows().
parse_row(line, row, record) ==
    LET field_name == row.db_element_name
    IN  IF IsNull(row.start_pstn) \/ IsNull(row.element_lgth)
        THEN record
        ELSE LET start_pos == row.start_pstn[1] - 1
                 length    == row.element_lgth[1]
             IN  IF start_pos < 0 \/ (start_pos + length) > Len(line)
                 THEN record
                 ELSE (field_name :> extract_field(line, start_pos, length)) @@ record

RECURSIVE parse_rows(_, _, _, _)
parse_rows(line, metadata, i, record) ==
    IF i > Len(metadata)
    THEN record
    ELSE parse_rows(line, metadata, i + 1, parse_row(line, metadata[i], record))

parse_line(line, metadata) == parse_rows(line, metadata, 1, <<>>)

\* int(start_pos) and int(length) raise OverflowError on the float infinity:
\* parse_line raises when a row with neither cell null has an infinite one.
parse_line_raises(metadata) ==
    \E i \in DOMAIN metadata :
        /\ ~IsNull(metadata[i].start_pstn) /\ ~IsNull(metadata[i].element_lgth)
        /\ (IsInf(metadata[i].start_pstn) \/ IsInf(metadata[i].element_lgth))

\* ---------------------------------------------------- normalize_base_name
\* The index of the last "." of s, 0 when there is none (str.rfind + 1).
RECURSIVE LastDot(_, _)
LastDot(s, i) == IF i = 0 THEN 0 ELSE IF s[i] = "." THEN i ELSE LastDot(s, i - 1)

\* os.path.splitext(file_name)[0]: cut at the last dot, unless only dots
\* precede it.
splitext_root(file_name) ==
    LET dot == LastDot(file_name, Len(file_name))
    IN  IF dot > 0 /\ \E j \in 1..(dot - 1) : file_name[j] # "."
        THEN SubSeq(file_name, 1, dot - 1)
        ELSE file_name

NO_MATCHING_METADATA_ == <<"N", "O", "_", "M", "A", "T", "C", "H", "I", "N", "G", "_", "M", "E", "T", "A", "D", "A", "T", "A", "_">>
FAILED_INSERT_ == <<"F", "A", "I", "L", "E", "D", "_", "I", "N", "S", "E", "R", "T", "_">>
DotTxt == <<".", "t", "x", "t">>

\* One iteration of "if base.startswith(prefix): base = base[len(prefix):]".
strip_prefix(base, prefix) ==
    IF StartsWith(base, prefix)
    THEN SubSeq(base, Len(prefix) + 1, Len(base))
    ELSE base

\* for prefix in ['NO_MATCHING_METADATA_', 'FAILED_INSERT_']: one pass, in
\* this order.
normalize_base_name(file_name) ==
    strip_prefix(strip_prefix(splitext_root(file_name), NO_MATCHING_METADATA_),
                 FAILED_INSERT_)

\* f'NO_MATCHING_METADATA_{base_file_name}.txt' and f'FAILED_INSERT_{base_file_name}.txt'
not_inserted_log_name(base_file_name) == NO_MATCHING_METADATA_ \o base_file_name \o DotTxt
fail_log_name(base_file_name) == FAILED_INSERT_ \o base_file_name \o DotTxt

\* ------------------------------------------------- the run's fixed inputs
\* Lines of staged files: source code at [0,3), a sequence number, source id
\* at [11,13), then data, then the newline the file iterator keeps.
LineABC == <<"A", "B", "C", "0", "0", "0", "0", "0", "0", "0", "1", "0", "1", "1", "2", "3", "4", "5", "\n">>
LineXYZ == <<"X", "Y", "Z", "0", "0", "0", "0", "0", "0", "0", "3", "0", "2", "\n">>
LineZZZ == <<"Z", "Z", "Z", "0", "0", "0", "0", "0", "0", "0", "4", "9", "9", "9", "\n">>
LineBAD == <<"B", "A", "D", "0", "0", "0", "0", "0", "0", "0", "5", "0", "3", "1", "\n">>
LineEMP == <<"E", "M", "P", "0", "0", "0", "0", "0", "0", "0", "6", "0", "5", "\n">>
LineINF == <<"I", "N", "F", "0", "0", "0", "0", "0", "0", "0", "7", "0", "6", "\n">>
LineERR == <<"E", "R", "R", "0", "0", "0", "0", "0", "0", "0", "8", "0", "7", "\n">>

LinePool == {LineABC, LineXYZ, LineZZZ, LineBAD, LineEMP, LineINF, LineERR}

KeyABC01 == <<"A", "B", "C", "0", "1">>
KeyXYZ02 == <<"X", "Y", "Z", "0", "2">>
KeyBAD03 == <<"B", "A", "D", "0", "3">>
KeyEMP05 == <<"E", "M", "P", "0", "5">>
KeyINF06 == <<"I", "N", "F", "0", "6">>
KeyERR07 == <<"E", "R", "R", "0", "7">>

\* table_mapping(engine): src_id -> {src_table, parsed_data}, loaded once.
TableMap ==
    (KeyABC01 :> [src_table |-> "ABC_META", parsed_data |-> "abc_data"]) @@
    (KeyXYZ02 :> [src_table |-> "XYZ_META", parsed_data |-> "xyz_data"]) @@
    (KeyBAD03 :> [src_table |-> "ABC_META", parsed_data |-> ""]) @@
    (KeyEMP05 :> [src_table |-> "EMP_META", parsed_data |-> "emp_data"]) @@
    (KeyINF06 :> [src_table |-> "INF_META", parsed_data |-> "inf_data"]) @@
    (KeyERR07 :> [src_table |-> "ERR_META", parsed_data |-> "err_data"])

\* iata_metadata.<table>: the rows the metadata query returns, or a failing
\* query (ok = FALSE). A table that is not listed does not exist: the query
\* raises.
MetaStore ==
    [ABC_META |-> [ok |-> TRUE,
                   rows |-> << Col("code", RawNum(1), RawNum(3)),
                               Col("seq", RawNum(4), RawNum(8)),
                               Col("amt", RawNum(14), RawNum(5)),
                               Col("tax", RawNum(19), RawNum(4)),
                               Col("filler", RawNull, RawNum(2)),
                               Col("note", RawNum(2), RawText) >>],
     XYZ_META |-> [ok |-> TRUE,
                   rows |-> << Col("code", RawNum(1), RawNum(3)),
                               Col("id", RawNum(12), RawNum(2)) >>],
     EMP_META |-> [ok |-> TRUE, rows |-> << >>],
     INF_META |-> [ok |-> TRUE,
                   rows |-> << Col("code", RawNum(1), RawNum(3)),
                               Col("big", RawInf, RawNum(2)) >>],
     ERR_META |-> [ok |-> FALSE, rows |-> << >>]]

\* ------------------------------------------------ fetch_metadata_for_table
coerce_row(row) ==
    Col(row.db_element_name, to_numeric(row.start_pstn), to_numeric(row.element_lgth))

\* The column definitions of table_name, or the empty frame when the query
\* raises (the except branch returns pd.DataFrame()).
fetch_metadata_for_table(store, table_name) ==
    IF table_name \in DOMAIN store /\ store[table_name].ok
    THEN [i \in 1..Len(store[table_name].rows) |-> coerce_row(store[table_name].rows[i])]
    ELSE << >>

\* metadata.empty
IsEmptyFrame(metadata) == metadata = << >>

\* ------------------------------------------------------------ process_line
\* Python None for a record and for a line; both are falsy, as {} and "".
NoneRecord == << >>
NoneLine == << >>

NotInserted(line) ==
    [actual_data_table |-> NoneName, parsed_record |-> NoneRecord, original_line |-> line]

\* parse_line, then parsed_record['instance_id'] = instance_id.
Decoded(line, actual_data_table, metadata, instance_id) ==
    [actual_data_table |-> actual_data_table,
     parsed_record |-> ("instance_id" :> instance_id) @@ parse_line(line, metadata),
     original_line |-> NoneLine]

\* A process_line call that ended in an exception instead of a return value.
Raised == [exception |-> "OverflowError"]
IsRaised(r) == "exception" \in DOMAIN r

\* Lines 97-99: parse_line, the instance_id stamp and the return, or the
\* exception parse_line raises.
parse_and_stamp(line, actual_data_table, metadata, instance_id) ==
    IF parse_line_raises(metadata)
    THEN Raised
    ELSE Decoded(line, actual_data_table, metadata, instance_id)

\* Mutant of IsUnknown: the "Unknown Table" sentinel is not tested.
IsUnknown_Never(table_info) == FALSE

IsUnknown(table_info) ==
    table_info.src_table = UnknownTable \/ table_info.parsed_data = UnknownTable

\* process_line run without interruption: its return value, the metadata
\* cache it leaves behind and the schema tables it queried the store for.
process_line(line, table_map, metadata_cache, instance_id, store) ==
    LET table_info == identify_table(line, table_map)
        metadata_table == table_info.src_table
        actual_data_table == table_info.parsed_data
    IN  IF IsUnknown(table_info)
        THEN [ret |-> NotInserted(line), cache |-> metadata_cache, fetched |-> << >>]
        ELSE IF metadata_table \in DOMAIN metadata_cache
        THEN [ret |-> parse_and_stamp(line, actual_data_table, metadata_cache[metadata_table], instance_id),
              cache |-> metadata_cache, fetched |-> << >>]
        ELSE LET metadata == fetch_metadata_for_table(store, metadata_table)
             IN  IF ~IsEmptyFrame(metadata)
                 THEN [ret |-> parse_and_stamp(line, actual_data_table, metadata, instance_id),
                       cache |-> (metadata_table :> metadata) @@ metadata_cache,
                       fetched |-> << metadata_table >>]
                 ELSE [ret |-> NotInserted(line), cache |-> metadata_cache,
                       fetched |-> << metadata_table >>]


\* ------------------------------------------------------------- the state
VARIABLES
    dir,                    \* folder -> the names of the regular files in it
    logs,                   \* diagnostic file name -> its text lines
    pcDir,                  \* process_files_in_directory: "start", "loop", "done", "aborted"
    listing,                \* os.listdir(source_folder), regular files only
    idx,                    \* position of the for loop in listing
    pcFile,                 \* process_file: "idle", "decode", "tx", "returned"
    file_lines,             \* the lines read from the open file
    task,                   \* decode task of line i: "queued", "fetching", "done", "collected"
    result,                 \* future.result() of task i once it is done
    metadata_cache,         \* schema table -> column definitions
    parsed_data_per_table,  \* dict in insertion order: <<[table, records], ...>>
    not_inserted_records,   \* list of original lines
    failed_records,         \* list of (None, error detail)
    txRows,                 \* rows inserted by the open transaction, not committed
    dbRows,                 \* committed rows of the destination tables
    began,                  \* files for which conn.begin() was executed
    started,                \* files process_file was called for
    outcome,                \* file -> how its process_file call ended
    queried,                \* schema tables the store was queried for, for this file
    manifest_file,          \* processed_zips.json: local root -> relative paths
    manifest,               \* download_and_process: the manifest in memory
    processed,              \* the processed set of the root of the for loop
    local_fs,               \* the local files, as (local root, relative path)
    pcFetch,                \* "idle", "roots", "walk", "get", "replace", "unzip", "add"
    root_idx,               \* position of the loop of line 79 in remote_to_local
    walk_idx,               \* position of the loop of line 81 in the remote listing
    run,                    \* calls of download_and_process so far
    attempts,               \* path -> downloads of it that were started
    status,                 \* path -> how its latest download ended
    arg,                    \* input of the function applied by SpecNorm / SpecParse / SpecLine
    ret                     \* its return value

vars == << dir, logs, pcDir, listing, idx, pcFile, file_lines, task, result,
           metadata_cache, parsed_data_per_table, not_inserted_records,
           failed_records, txRows, dbRows, began, started, outcome, queried,
           manifest_file, manifest, processed, local_fs, pcFetch, root_idx,
           walk_idx, run, attempts, status, arg, ret >>

\* The variables download_and_process does not touch.
parserVars == << dir, logs, pcDir, listing, idx, pcFile, file_lines, task, result,
                metadata_cache, parsed_data_per_table, not_inserted_records,
                failed_records, txRows, dbRows, began, started, outcome, queried,
                arg, ret >>

fetchVars == << manifest_file, manifest, processed, local_fs, pcFetch, root_idx,
               walk_idx, run, attempts, status >>

sweepVars == << dir, logs, pcDir, listing, idx, pcFile, file_lines, task, result,
                metadata_cache, parsed_data_per_table, not_inserted_records,
                failed_records, txRows, dbRows, began, started, outcome, queried,
                fetchVars >>

\* --------------------------------------------------------- the file system
Staging == "staging"
SuccessFolder == "Processed Successfully"
FailedFolder == "Failed"
NoMetadataFolder == "No Matching Metadata"
Folders == {Staging, SuccessFolder, FailedFolder, NoMetadataFolder}
TerminalFolders == Folders \ {Staging}

FileA == <<"A", ".", "t", "x", "t">>
FileB == <<"B", ".", "t", "x", "t">>
StagedFiles == {FileA, FileB}

\* The files' possible contents: up to MaxLines lines of LinePool.
Contents == UNION { [1..n -> LinePool] : n \in 0..MaxLines }

\* os.path.exists(os.path.join(folder, name))
Exists(d, folder, name) == name \in d[folder]

\* os.rename(src_folder/name, dst_folder/name)
Rename(d, src, dst, name) ==
    [d EXCEPT ![src] = @ \ {name}, ![dst] = @ \cup {name}]

\* All orders in which os.listdir may return the files of a set.
Orders(S) == { o \in [1..Cardinality(S) -> S] : \A i, j \in DOMAIN o : i # j => o[i] # o[j] }

\* --------------------------------------------------------------- the store
\* A row of a destination table.
Row(table, record) == [table |-> table, record |-> record]

RECURSIVE RowsOf(_, _)
RowsOf(table, records) ==
    IF records = << >>
    THEN EmptyBag
    ELSE SetToBag({Row(table, Head(records))}) (+) RowsOf(table, Tail(records))

\* ------------------------------------------------------------ process_file
CurFile == listing[idx]
base_file_name == normalize_base_name(CurFile)
Tasks == DOMAIN file_lines

NoResult == [actual_data_table |-> NoneName, parsed_record |-> NoneRecord,
             original_line |-> NoneLine]

\* The error details str(e) that reach failed_records.
ErrGate == [error |-> "Metadata mismatch or parsing errors detected", table |-> NoneName]
ErrInsert(table) == [error |-> "insert failed", table |-> table]
ErrCommit == [error |-> "commit failed", table |-> NoneName]
ErrConnect == [error |-> "connect failed", table |-> NoneName]
ErrOpen == [error |-> "cannot read file", table |-> NoneName]

\* How a process_file call ended: without failed records, with lines that
\* were not inserted, or with another failure.
Ended(kind) == (CurFile :> kind) @@ outcome

\* f"ERROR - Bulk insert failed: {error_detail}\n"
FailLogLine(failed) == << "ERROR - Bulk insert failed: ", failed[2] >>

\* The except branch of process_file (lines 161-176): record the error, write
\* the not-inserted log when there are such lines, always write the
\* failed-insert log.
HandlerFailed(detail) == Append(failed_records, << NoneName, detail >>)

HandlerLogs(detail) ==
    LET fr == HandlerFailed(detail)
        withNotInserted ==
            IF not_inserted_records # << >>
            THEN (not_inserted_log_name(base_file_name) :>
                     [i \in DOMAIN not_inserted_records |->
                         not_inserted_records[i] \o << "\n" >>]) @@ logs
            ELSE logs
    IN  (fail_log_name(base_file_name) :>
            [i \in DOMAIN fr |-> FailLogLine(fr[i])]) @@ withNotInserted

\* Mutant of HandlerDir: the not-inserted log is created on every failure.
HandlerDir_AlwaysLog ==
    [dir EXCEPT ![Staging] = @ \cup {not_inserted_log_name(base_file_name),
                                     fail_log_name(base_file_name)}]

HandlerDir ==
    LET withNotInserted ==
            IF not_inserted_records # << >>
            THEN [dir EXCEPT ![Staging] = @ \cup {not_inserted_log_name(base_file_name)}]
            ELSE dir
    IN  [withNotInserted EXCEPT ![Staging] = @ \cup {fail_log_name(base_file_name)}]

\* raise ... -> except Exception as e (line 161) -> return failed_records
RaiseToHandler(detail) ==
    /\ failed_records' = HandlerFailed(detail)
    /\ logs' = HandlerLogs(detail)
    /\ dir' = HandlerDir
    /\ pcFile' = "returned"
    /\ outcome' = Ended(IF not_inserted_records # << >> THEN "not_inserted" ELSE "failed")

\* process_files_in_directory, lines 182-189: create the outcome folders and
\* list the staging folder. (The three folders are listed too and skipped by
\* the isfile test; only regular files are kept here.)
StartSweep ==
    /\ pcDir = "start"
    /\ \E o \in Orders(dir[Staging]) : listing' = o
    /\ idx' = 1
    /\ pcDir' = "loop"
    /\ UNCHANGED << dir, logs, pcFile, file_lines, task, result, metadata_cache,
                    parsed_data_per_table, not_inserted_records, failed_records,
                    txRows, dbRows, began, started, outcome, queried, arg, ret,
                    fetchVars >>

\* process_file, lines 109-131: open the file and submit one process_line
\* task per line.
OpenFile ==
    /\ pcDir = "loop" /\ idx <= Len(listing) /\ pcFile = "idle"
    /\ started' = started \cup {CurFile}
    /\ \E content \in Contents :
          /\ file_lines' = content
          /\ task' = [i \in DOMAIN content |-> "queued"]
          /\ result' = [i \in DOMAIN content |-> NoResult]
    /\ pcFile' = "decode"
    /\ UNCHANGED << dir, logs, pcDir, listing, idx, metadata_cache,
                    parsed_data_per_table, not_inserted_records, failed_records,
                    txRows, dbRows, began, outcome, queried, arg, ret,
                    fetchVars >>

\* process_file, line 120: open() raises (the file cannot be read).
OpenFileFails ==
    /\ pcDir = "loop" /\ idx <= Len(listing) /\ pcFile = "idle"
    /\ started' = started \cup {CurFile}
    /\ RaiseToHandler(ErrOpen)
    /\ UNCHANGED << pcDir, listing, idx, file_lines, task, result, metadata_cache,
                    parsed_data_per_table, not_inserted_records,
                    txRows, dbRows, began, queried, arg, ret,
                    fetchVars >>

\* process_line, lines 81-90, run by a pool worker: classify the line and
\* look the schema table up in the shared cache.
TaskLookup(i) ==
    /\ pcFile = "decode" /\ task[i] = "queued"
    /\ Cardinality({j \in Tasks : task[j] = "fetching"}) < MaxWorkers
    /\ LET line == file_lines[i]
           table_info == identify_table(line, TableMap)
       IN  IF IsUnknown(table_info)
           THEN /\ task' = [task EXCEPT ![i] = "done"]
                /\ result' = [result EXCEPT ![i] = NotInserted(line)]
           ELSE IF table_info.src_table \in DOMAIN metadata_cache
           THEN /\ task' = [task EXCEPT ![i] = "done"]
                /\ result' = [result EXCEPT ![i] =
                       parse_and_stamp(line, table_info.parsed_data,
                               metadata_cache[table_info.src_table], base_file_name)]
           ELSE /\ task' = [task EXCEPT ![i] = "fetching"]
                /\ UNCHANGED result
    /\ UNCHANGED << dir, logs, pcDir, listing, idx, pcFile, file_lines, metadata_cache,
                    parsed_data_per_table, not_inserted_records, failed_records,
                    txRows, dbRows, began, started, outcome, queried, arg, ret,
                    fetchVars >>

\* Mutant of TaskFetch: the cache receives the first column definition only.
TaskFetch_CachesFirstRow(i) ==
    /\ pcFile = "decode" /\ task[i] = "fetching"
    /\ LET line == file_lines[i]
           table_info == identify_table(line, TableMap)
           metadata == fetch_metadata_for_table(MetaStore, table_info.src_table)
       IN  IF ~IsEmptyFrame(metadata)
           THEN /\ metadata_cache' =
                       (table_info.src_table :> << metadata[1] >>) @@ metadata_cache
                /\ result' = [result EXCEPT ![i] =
                       parse_and_stamp(line, table_info.parsed_data, metadata, base_file_name)]
           ELSE /\ result' = [result EXCEPT ![i] = NotInserted(line)]
                /\ UNCHANGED metadata_cache
    /\ queried' = queried \cup {identify_table(file_lines[i], TableMap).src_table}
    /\ task' = [task EXCEPT ![i] = "done"]
    /\ UNCHANGED << dir, logs, pcDir, listing, idx, pcFile, file_lines,
                    parsed_data_per_table, not_inserted_records, failed_records,
                    txRows, dbRows, began, started, outcome, arg, ret,
                    fetchVars >>

\* Mutant of TaskFetch: an empty frame is used like any other metadata.
TaskFetch_NoEmptyCheck(i) ==
    /\ pcFile = "decode" /\ task[i] = "fetching"
    /\ LET line == file_lines[i]
           table_info == identify_table(line, TableMap)
           metadata == fetch_metadata_for_table(MetaStore, table_info.src_table)
       IN  /\ metadata_cache' = (table_info.src_table :> metadata) @@ metadata_cache
           /\ result' = [result EXCEPT ![i] =
                  parse_and_stamp(line, table_info.parsed_data, metadata, base_file_name)]
    /\ queried' = queried \cup {identify_table(file_lines[i], TableMap).src_table}
    /\ task' = [task EXCEPT ![i] = "done"]
    /\ UNCHANGED << dir, logs, pcDir, listing, idx, pcFile, file_lines,
                    parsed_data_per_table, not_inserted_records, failed_records,
                    txRows, dbRows, began, started, outcome, arg, ret,
                    fetchVars >>

\* process_line, lines 91-99, after a cache miss: fetch, cache a non-empty
\* result, decode.
TaskFetch(i) ==
    /\ pcFile = "decode" /\ task[i] = "fetching"
    /\ LET line == file_lines[i]
           table_info == identify_table(line, TableMap)
           metadata == fetch_metadata_for_table(MetaStore, table_info.src_table)
       IN  IF ~IsEmptyFrame(metadata)
           THEN /\ metadata_cache' = (table_info.src_table :> metadata) @@ metadata_cache
                /\ result' = [result EXCEPT ![i] =
                       parse_and_stamp(line, table_info.parsed_data, metadata, base_file_name)]
           ELSE /\ result' = [result EXCEPT ![i] = NotInserted(line)]
                /\ UNCHANGED metadata_cache
    /\ queried' = queried \cup {identify_table(file_lines[i], TableMap).src_table}
    /\ task' = [task EXCEPT ![i] = "done"]
    /\ UNCHANGED << dir, logs, pcDir, listing, idx, pcFile, file_lines,
                    parsed_data_per_table, not_inserted_records, failed_records,
                    txRows, dbRows, began, started, outcome, arg, ret,
                    fetchVars >>

\* Mutant of AppendTo: the record replaces the list of its table.
AppendTo_Overwrite(per_table, table, record) ==
    IF \E k \in DOMAIN per_table : per_table[k].table = table
    THEN [k \in DOMAIN per_table |->
             IF per_table[k].table = table
             THEN [per_table[k] EXCEPT !.records = << record >>]
             ELSE per_table[k]]
    ELSE Append(per_table, [table |-> table, records |-> << record >>])

\* parsed_data_per_table.setdefault(table, []).append(record)
AppendTo(per_table, table, record) ==
    IF \E k \in DOMAIN per_table : per_table[k].table = table
    THEN [k \in DOMAIN per_table |->
             IF per_table[k].table = table
             THEN [per_table[k] EXCEPT !.records = Append(@, record)]
             ELSE per_table[k]]
    ELSE Append(per_table, [table |-> table, records |-> << record >>])

\* Mutant of Collect: the exception of a decode task is not caught in the
\* loop and reaches the except branch of process_file.
Collect_Propagates(i) ==
    /\ pcFile = "decode" /\ task[i] = "done"
    /\ LET r == result[i]
       IN  IF IsRaised(r)
           THEN /\ RaiseToHandler([error |-> r.exception, table |-> NoneName])
                /\ UNCHANGED << parsed_data_per_table, not_inserted_records >>
           ELSE /\ IF Truthy(r.actual_data_table) /\ r.parsed_record # NoneRecord
                   THEN /\ parsed_data_per_table' =
                               AppendTo(parsed_data_per_table, r.actual_data_table,
                                        r.parsed_record)
                        /\ UNCHANGED not_inserted_records
                   ELSE IF r.original_line # NoneLine
                   THEN /\ not_inserted_records' =
                               Append(not_inserted_records, r.original_line)
                        /\ UNCHANGED parsed_data_per_table
                   ELSE UNCHANGED << parsed_data_per_table, not_inserted_records >>
                /\ UNCHANGED << dir, logs, pcFile, failed_records, outcome >>
    /\ task' = [task EXCEPT ![i] = "collected"]
    /\ UNCHANGED << pcDir, listing, idx, file_lines, result, metadata_cache,
                    txRows, dbRows, began, started, queried, arg, ret,
                    fetchVars >>

\* The body of "for future in as_completed(futures)", lines 135-139, for one
\* completed future.
Collect(i) ==
    /\ pcFile = "decode" /\ task[i] = "done"
    /\ LET r == result[i]
       IN  IF IsRaised(r)
           THEN /\ not_inserted_records' = Append(not_inserted_records, file_lines[i])
                /\ UNCHANGED parsed_data_per_table
           ELSE IF Truthy(r.actual_data_table) /\ r.parsed_record # NoneRecord
           THEN /\ parsed_data_per_table' =
                       AppendTo(parsed_data_per_table, r.actual_data_table, r.parsed_record)
                /\ UNCHANGED not_inserted_records
           ELSE IF r.original_line # NoneLine
           THEN /\ not_inserted_records' = Append(not_inserted_records, r.original_line)
                /\ UNCHANGED parsed_data_per_table
           ELSE UNCHANGED << parsed_data_per_table, not_inserted_records >>
    /\ task' = [task EXCEPT ![i] = "collected"]
    /\ UNCHANGED << dir, logs, pcDir, listing, idx, pcFile, file_lines, result,
                    metadata_cache, failed_records, txRows, dbRows, began, started,
                    outcome, queried, arg, ret,
                    fetchVars >>

AllCollected == \A i \in Tasks : task[i] = "collected"

\* Lines 144-145: every future was collected and some line was not inserted:
\* raise, which runs the except branch.
GateFails ==
    /\ pcFile = "decode" /\ AllCollected
    /\ not_inserted_records # << >>
    /\ RaiseToHandler(ErrGate)
    /\ UNCHANGED << pcDir, listing, idx, file_lines, task, result, metadata_cache,
                    parsed_data_per_table, not_inserted_records,
                    txRows, dbRows, began, started, queried, arg, ret,
                    fetchVars >>

\* Mutant of BeginTransaction: the transaction is opened whatever the
\* not-inserted bucket holds.
BeginTransaction_NoGate ==
    /\ pcFile = "decode" /\ AllCollected
    /\ began' = began \cup {CurFile}
    /\ txRows' = EmptyBag
    /\ pcFile' = "tx"
    /\ UNCHANGED << dir, logs, pcDir, listing, idx, file_lines, task, result,
                    metadata_cache, parsed_data_per_table, not_inserted_records,
                    failed_records, dbRows, started, outcome, queried, arg, ret,
                    fetchVars >>

\* Mutant of BeginTransaction: the transaction is opened as soon as the
\* not-inserted bucket is empty, without waiting for the decode tasks.
BeginTransaction_Early ==
    /\ pcFile = "decode"
    /\ not_inserted_records = << >>
    /\ began' = began \cup {CurFile}
    /\ txRows' = EmptyBag
    /\ pcFile' = "tx"
    /\ UNCHANGED << dir, logs, pcDir, listing, idx, file_lines, task, result,
                    metadata_cache, parsed_data_per_table, not_inserted_records,
                    failed_records, dbRows, started, outcome, queried, arg, ret,
                    fetchVars >>

\* Lines 147-148: engine.connect() and conn.begin().
BeginTransaction ==
    /\ pcFile = "decode" /\ AllCollected
    /\ not_inserted_records = << >>
    /\ began' = began \cup {CurFile}
    /\ txRows' = EmptyBag
    /\ pcFile' = "tx"
    /\ UNCHANGED << dir, logs, pcDir, listing, idx, file_lines, task, result,
                    metadata_cache, parsed_data_per_table, not_inserted_records,
                    failed_records, dbRows, started, outcome, queried, arg, ret,
                    fetchVars >>

\* Line 147: engine.connect() raises; the outer except branch runs.
ConnectFails ==
    /\ pcFile = "decode" /\ AllCollected
    /\ not_inserted_records = << >>
    /\ RaiseToHandler(ErrConnect)
    /\ UNCHANGED << pcDir, listing, idx, file_lines, task, result, metadata_cache,
                    parsed_data_per_table, not_inserted_records,
                    txRows, dbRows, began, started, queried, arg, ret,
                    fetchVars >>

\* The tables of parsed_data_per_table whose insert has run are the first
\* "inserted" ones; the transaction's rows tell how many.
Inserted == Cardinality({k \in DOMAIN parsed_data_per_table :
                \E r \in BagToSet(txRows) : r.table = parsed_data_per_table[k].table})

\* Lines 150-151: insert_parsed_data for the next table succeeds.
InsertTable ==
    /\ pcFile = "tx" /\ Inserted < Len(parsed_data_per_table)
    /\ LET batch == parsed_data_per_table[Inserted + 1]
       IN  txRows' = txRows (+) RowsOf(batch.table, batch.records)
    /\ UNCHANGED << dir, logs, pcDir, listing, idx, pcFile, file_lines, task, result,
                    metadata_cache, parsed_data_per_table, not_inserted_records,
                    failed_records, dbRows, began, started, outcome, queried, arg, ret,
                    fetchVars >>

\* Mutant of Rollback: the rows inserted so far are kept (no rollback).
Rollback_KeepsRows(detail) ==
    /\ txRows' = EmptyBag
    /\ dbRows' = dbRows (+) txRows
    /\ failed_records' = Append(failed_records, << NoneName, detail >>)
    /\ pcFile' = "returned"
    /\ outcome' = Ended("failed")

\* trans.rollback(); failed_records.append((None, str(e)))  (lines 153-155)
Rollback(detail) ==
    /\ txRows' = EmptyBag
    /\ dbRows' = dbRows
    /\ failed_records' = Append(failed_records, << NoneName, detail >>)
    /\ pcFile' = "returned"
    /\ outcome' = Ended("failed")

\* Lines 150-155: insert_parsed_data for the next table raises.
InsertTableFails ==
    /\ pcFile = "tx" /\ Inserted < Len(parsed_data_per_table)
    /\ Rollback(ErrInsert(parsed_data_per_table[Inserted + 1].table))
    /\ UNCHANGED << dir, logs, pcDir, listing, idx, file_lines, task, result,
                    metadata_cache, parsed_data_per_table, not_inserted_records,
                    began, started, queried, arg, ret,
                    fetchVars >>

\* Line 152: trans.commit(), then return failed_records (line 178).
Commit ==
    /\ pcFile = "tx" /\ Inserted = Len(parsed_data_per_table)
    /\ dbRows' = dbRows (+) txRows
    /\ txRows' = EmptyBag
    /\ pcFile' = "returned"
    /\ outcome' = Ended("success")
    /\ UNCHANGED << dir, logs, pcDir, listing, idx, file_lines, task, result,
                    metadata_cache, parsed_data_per_table, not_inserted_records,
                    failed_records, began, started, queried, arg, ret,
                    fetchVars >>

\* Lines 152-155: trans.commit() raises.
CommitFails ==
    /\ pcFile = "tx" /\ Inserted = Len(parsed_data_per_table)
    /\ Rollback(ErrCommit)
    /\ UNCHANGED << dir, logs, pcDir, listing, idx, file_lines, task, result,
                    metadata_cache, parsed_data_per_table, not_inserted_records,
                    began, started, queried, arg, ret,
                    fetchVars >>

\* ----------------------------------------------- process_files_in_directory
\* any(x) of Python applied to a bool: bool is not iterable, any() raises
\* TypeError whatever the value of x.
AnyOfBoolRaises(x) == TRUE

\* The locals of process_file are gone once its caller has used the result.
ForgetFile ==
    /\ pcFile' = "idle"
    /\ file_lines' = << >>
    /\ task' = << >>
    /\ result' = << >>
    /\ metadata_cache' = << >>
    /\ parsed_data_per_table' = << >>
    /\ not_inserted_records' = << >>
    /\ failed_records' = << >>
    /\ queried' = {}

\* Lines 197-203: process_file returned no failed record; move the file to
\* 'Processed Successfully' and go on with the next file.
RouteSuccess ==
    /\ pcDir = "loop" /\ pcFile = "returned"
    /\ failed_records = << >>
    /\ dir' = Rename(dir, Staging, SuccessFolder, CurFile)
    /\ idx' = idx + 1
    /\ ForgetFile
    /\ UNCHANGED << logs, pcDir, listing, txRows, dbRows, began, started, outcome, arg, ret,
                    fetchVars >>

\* Lines 204-222: process_file returned failed records. Line 205 evaluates
\* os.path.exists(...) to a bool and hands it to any(), which raises
\* TypeError; the except branch of line 221 logs it and the function returns.
\* Lines 208-219 (choice of the folder, the renames) are never reached.
RouteFailure ==
    /\ pcDir = "loop" /\ pcFile = "returned"
    /\ failed_records # << >>
    /\ IF AnyOfBoolRaises(Exists(dir, Staging, not_inserted_log_name(base_file_name)))
       THEN /\ pcDir' = "aborted"
            /\ UNCHANGED << dir, idx >>
       ELSE LET has_metadata_issues ==
                    Exists(dir, Staging, not_inserted_log_name(base_file_name))
                target_folder == IF has_metadata_issues THEN NoMetadataFolder ELSE FailedFolder
                moved == Rename(dir, Staging, target_folder, CurFile)
                fl == fail_log_name(base_file_name)
                nl == not_inserted_log_name(base_file_name)
                moved1 == IF Exists(moved, Staging, fl)
                          THEN Rename(moved, Staging, target_folder, fl) ELSE moved
                moved2 == IF Exists(moved1, Staging, nl)
                          THEN Rename(moved1, Staging, target_folder, nl) ELSE moved1
            IN  /\ dir' = moved2
                /\ idx' = idx + 1
                /\ UNCHANGED pcDir
    /\ ForgetFile
    /\ UNCHANGED << logs, listing, txRows, dbRows, began, started, outcome, arg, ret,
                    fetchVars >>

\* The for loop of line 189 is exhausted.
FinishSweep ==
    /\ pcDir = "loop" /\ pcFile = "idle" /\ idx > Len(listing)
    /\ pcDir' = "done"
    /\ UNCHANGED << dir, logs, listing, idx, pcFile, file_lines, task, result,
                    metadata_cache, parsed_data_per_table, not_inserted_records,
                    failed_records, txRows, dbRows, began, started, outcome, queried, arg, ret,
                    fetchVars >>

\* ------------------------------------------------------------------------
\* sftp_data_fetch.py: names, paths and the state before the first call
\* ------------------------------------------------------------------------
\* Bound: the calls of download_and_process in one behaviour.
MaxRuns == 2

DotPart == <<".", "p", "a", "r", "t">>
DotZip == <<".", "z", "i", "p">>

\* str.lower(), on the upper-case letters that occur in the names below.
LowerCase == ("B" :> "b") @@ ("Z" :> "z") @@ ("I" :> "i") @@ ("P" :> "p")
Lower(s) == [i \in DOMAIN s |-> IF s[i] \in DOMAIN LowerCase THEN LowerCase[s[i]] ELSE s[i]]

\* str.endswith(suffix)
EndsWith(s, suffix) ==
    Len(s) >= Len(suffix) /\ SubSeq(s, Len(s) - Len(suffix) + 1, Len(s)) = suffix

\* Two of the entries of remote_to_local, in the order of the dict.
remote_to_local ==
    << [remote_root |-> "sales_transaction/HOT", local_root |-> "HOT"],
       [remote_root |-> "sales_transaction/RET", local_root |-> "RET"] >>

RelTxt == <<"a", ".", "t", "x", "t">>
RelZip == <<"B", ".", "Z", "I", "P">>
MemberTxt == <<"b", ".", "t", "x", "t">>

\* walk_remote(sftp, root) followed by posixpath.relpath: the relative paths
\* of the regular files under a remote root, in listing order.
walk_remote(root) ==
    IF root = "sales_transaction/HOT" THEN << RelTxt, RelZip >> ELSE << RelTxt >>

\* The names zf.extractall writes for an archive.
ZipMembers(archive) == { MemberTxt }

\* os.path.join(local_root, rel_path)
Path(root, name) == [root |-> root, name |-> name]

\* Every local file the remote listings name.
AllPaths ==
    UNION { { Path(remote_to_local[k].local_root,
                   walk_remote(remote_to_local[k].remote_root)[w]) :
                w \in DOMAIN walk_remote(remote_to_local[k].remote_root) } :
            k \in DOMAIN remote_to_local }

FetchInit ==
    /\ manifest_file = << >>
    /\ manifest = << >>
    /\ processed = {}
    /\ local_fs = {}
    /\ pcFetch = "idle"
    /\ root_idx = 1
    /\ walk_idx = 1
    /\ run = 0
    /\ attempts = [p \in AllPaths |-> 0]
    /\ status = [p \in AllPaths |-> "never"]

NoCall == [called |-> FALSE]

\* The sweep before it starts.
SweepInitOn(staged) ==
    /\ dir = [f \in Folders |-> IF f = Staging THEN staged ELSE {}]
    /\ logs = << >>
    /\ pcDir = "start"
    /\ listing = << >>
    /\ idx = 1
    /\ pcFile = "idle"
    /\ file_lines = << >>
    /\ task = << >>
    /\ result = << >>
    /\ metadata_cache = << >>
    /\ parsed_data_per_table = << >>
    /\ not_inserted_records = << >>
    /\ failed_records = << >>
    /\ txRows = EmptyBag
    /\ dbRows = EmptyBag
    /\ began = {}
    /\ started = {}
    /\ outcome = << >>
    /\ queried = {}
    /\ FetchInit

SweepInit == SweepInitOn(StagedFiles)

Init ==
    /\ SweepInit
    /\ arg = NoCall
    /\ ret = NoCall

Next ==
    \/ StartSweep
    \/ OpenFile
    \/ OpenFileFails
    \/ \E i \in Tasks : TaskLookup(i)
    \/ \E i \in Tasks : TaskFetch(i)
    \/ \E i \in Tasks : Collect(i)
    \/ GateFails
    \/ BeginTransaction
    \/ ConnectFails
    \/ InsertTable
    \/ InsertTableFails
    \/ Commit
    \/ CommitFails
    \/ RouteSuccess
    \/ RouteFailure
    \/ FinishSweep

Spec == Init /\ [][Next]_vars

\* The same sweep over a staging folder that holds one file: the executions
\* of a single process_file call and of the routing of its file.
InitOneFile ==
    /\ SweepInitOn({FileA})
    /\ arg = NoCall
    /\ ret = NoCall

SpecOneFile == InitOneFile /\ [][Next]_vars

\* ------------------------------------------------------------------------
\* SpecNorm: normalize_base_name applied to file names made of a stack of
\* transient prefixes, a base and an extension.
Prefixes == {NO_MATCHING_METADATA_, FAILED_INSERT_}
PrefixStacks == UNION { [1..n -> Prefixes] : n \in 0..MaxPrefixDepth }
Bases == { <<"X">>, <<"H", "O", "T", "_", "D", "2", "4", "0", "1", "0", "1">>, <<"a", ".", "b">>, <<"F", "A", "I", "L", "E", "D">> }
Extensions == { DotTxt, << >> }

RECURSIVE Flatten(_)
Flatten(stack) == IF stack = << >> THEN << >> ELSE Head(stack) \o Flatten(Tail(stack))

NameOf(a) == Flatten(a.prefixes) \o a.base \o a.ext

InitNorm ==
    /\ SweepInit
    /\ arg \in [prefixes : PrefixStacks, base : Bases, ext : Extensions]
    /\ ret = NoCall

\* normalize_base_name(file_name)
Normalize ==
    /\ ~ret.called
    /\ ret' = [called |-> TRUE, calls |-> 1, value |-> normalize_base_name(NameOf(arg))]
    /\ UNCHANGED << arg, sweepVars >>

\* normalize_base_name applied to a diagnostic file named after its own result.
NormalizeAgain ==
    /\ ret.called /\ ret.calls = 1
    /\ ret' = [called |-> TRUE, calls |-> 2,
               value |-> normalize_base_name(fail_log_name(ret.value))]
    /\ UNCHANGED << arg, sweepVars >>

NextNorm == Normalize \/ NormalizeAgain

SpecNorm == InitNorm /\ [][NextNorm]_vars

\* ------------------------------------------------------------------------
\* SpecParse: parse_line applied to short lines and to one or two column
\* definitions with null, in-range and out-of-range offsets.
ParseChars == {"a", " "}
ParseLines == UNION { [1..n -> ParseChars] : n \in 0..MaxLineLen }
Cells(lo) == {NaN} \cup { Num(n) : n \in lo..MaxLineLen }
ColDefs == { Col(name, start, length) :
                name \in {"f", "g"}, start \in Cells(0), length \in Cells(-1) }
Metadatas == { << c >> : c \in ColDefs } \cup { << c, d >> : c, d \in ColDefs }

InitParse ==
    /\ SweepInit
    /\ arg \in [line : ParseLines, metadata : Metadatas]
    /\ ret = NoCall

\* parse_line(line, metadata)
ParseLine ==
    /\ ~ret.called
    /\ ret' = [called |-> TRUE, value |-> parse_line(arg.line, arg.metadata)]
    /\ UNCHANGED << arg, sweepVars >>

NextParse == ParseLine

SpecParse == InitParse /\ [][NextParse]_vars

\* ------------------------------------------------------------------------
\* SpecLine: process_line applied to the lines and registries of the
\* specification's scenarios.
ScnLine == <<"A", "B", "C", "0", "1", " ", " ", " ", " ", "1", "2", "3", "4", "5">>
ScnLineNL == <<"A", "B", "C", "0", "1", " ", " ", " ", " ", "1", "2", "3", "4", "5", "\n">>
ScnLineKeyed == <<"A", "B", "C", " ", " ", " ", " ", " ", " ", "1", "2", "0", "1", "5">>
ScnLineZZZ == <<"Z", "Z", "Z", " ", " ", " ", " ", " ", " ", "1", "2", "9", "9", "5">>
ScnLineShort == <<"A", "B", "C", "0", "1">>
ScnLines == {ScnLine, ScnLineNL, ScnLineKeyed, ScnLineZZZ, ScnLineShort, << >>}

KeyABC34 == <<"A", "B", "C", "3", "4">>
KeyABC == <<"A", "B", "C">>

ScnEntry == [src_table |-> "ABC_META", parsed_data |-> "abc_data"]
RegABC01 == KeyABC01 :> ScnEntry
RegABC34 == KeyABC34 :> ScnEntry
RegABC == KeyABC :> ScnEntry
RegNoneDest == KeyABC01 :> [src_table |-> "ABC_META", parsed_data |-> NoneName]
RegNoMeta == (KeyABC01 :> [src_table |-> "ERR_META", parsed_data |-> "abc_data"]) @@
             (KeyABC34 :> [src_table |-> "EMP_META", parsed_data |-> "abc_data"])
Registries == {RegABC01, RegABC34, RegABC, RegNoneDest, RegNoMeta, << >>}

\* The scenario's metadata: code at position 1 length 3, amt at position 10
\* length 5.
ScnStore ==
    [ABC_META |-> [ok |-> TRUE,
                   rows |-> << Col("code", RawNum(1), RawNum(3)),
                               Col("amt", RawNum(10), RawNum(5)) >>],
     EMP_META |-> [ok |-> TRUE, rows |-> << >>],
     ERR_META |-> [ok |-> FALSE, rows |-> << >>]]

ScnCaches == { << >>, "ABC_META" :> fetch_metadata_for_table(ScnStore, "ABC_META") }
RunIds == { <<"X">>, <<"H", "O", "T", "_", "D", "2", "4", "0", "1", "0", "1">> }

InitLine ==
    /\ SweepInit
    /\ arg \in [line : ScnLines, table_map : Registries, metadata_cache : ScnCaches,
                instance_id : RunIds]
    /\ ret = NoCall

\* process_line(line, table_map, metadata_cache, instance_id, engine)
ProcessLine ==
    /\ ~ret.called
    /\ LET r == process_line(arg.line, arg.table_map, arg.metadata_cache,
                             arg.instance_id, ScnStore)
       IN  ret' = [called |-> TRUE, value |-> r.ret, cache |-> r.cache,
                   fetched |-> r.fetched]
    /\ UNCHANGED << arg, sweepVars >>

NextLine == ProcessLine

SpecLine == InitLine /\ [][NextLine]_vars

\* ========================================================================
\* sftp_data_fetch.py: download_and_process and its manifest
\* ========================================================================

remote_root == remote_to_local[root_idx].remote_root
local_root == remote_to_local[root_idx].local_root
rel_path == walk_remote(remote_root)[walk_idx]
local_file == Path(local_root, rel_path)
tmp_file == Path(local_root, rel_path \o DotPart)
IsZip(name) == EndsWith(Lower(name), DotZip)

\* load_manifest(): the content of the manifest file, {} when there is none.
load_manifest == manifest_file

\* Line 75: a call of download_and_process begins.
StartRun ==
    /\ pcFetch = "idle" /\ run < MaxRuns
    /\ run' = run + 1
    /\ manifest' = load_manifest
    /\ root_idx' = 1
    /\ pcFetch' = "roots"
    /\ UNCHANGED << manifest_file, processed, local_fs, walk_idx, attempts, status,
                    parserVars >>

\* Lines 79-80: the next root; processed is the set the manifest holds for it.
EnterRoot ==
    /\ pcFetch = "roots" /\ root_idx <= Len(remote_to_local)
    /\ processed' = IF local_root \in DOMAIN manifest THEN manifest[local_root] ELSE {}
    /\ walk_idx' = 1
    /\ pcFetch' = "walk"
    /\ UNCHANGED << manifest_file, manifest, local_fs, root_idx, run, attempts, status,
                    parserVars >>

\* Line 81: sftp.listdir_attr raises on the root; nothing catches it, the call
\* ends without save_manifest.
WalkRaises ==
    /\ pcFetch = "walk" /\ walk_idx = 1
    /\ pcFetch' = "idle"
    /\ manifest' = << >>
    /\ processed' = {}
    /\ UNCHANGED << manifest_file, local_fs, root_idx, walk_idx, run, attempts, status,
                    parserVars >>

\* Lines 83-84: the path is in the processed set.
Skip ==
    /\ pcFetch = "walk" /\ walk_idx <= Len(walk_remote(remote_root))
    /\ rel_path \in processed
    /\ walk_idx' = walk_idx + 1
    /\ UNCHANGED << manifest_file, manifest, processed, local_fs, pcFetch, root_idx,
                    run, attempts, status,
                    parserVars >>

\* The except branch of lines 94-98 and of lines 106-108: remove the .part
\* file if there is one, go on with the next remote file.
Continue(fs) ==
    /\ local_fs' = fs \ {tmp_file}
    /\ status' = [status EXCEPT ![local_file] = "failed"]
    /\ walk_idx' = walk_idx + 1
    /\ pcFetch' = "walk"

\* Line 92: sftp.get raises before it has created the local file.
GetRaisesAtOpen ==
    /\ pcFetch = "walk" /\ walk_idx <= Len(walk_remote(remote_root))
    /\ rel_path \notin processed
    /\ attempts' = [attempts EXCEPT ![local_file] = @ + 1]
    /\ Continue(local_fs)
    /\ UNCHANGED << manifest_file, manifest, processed, root_idx, run,
                    parserVars >>

\* Line 92: sftp.get has created the .part file and is writing it.
StartGet ==
    /\ pcFetch = "walk" /\ walk_idx <= Len(walk_remote(remote_root))
    /\ rel_path \notin processed
    /\ attempts' = [attempts EXCEPT ![local_file] = @ + 1]
    /\ status' = [status EXCEPT ![local_file] = "running"]
    /\ local_fs' = local_fs \cup {tmp_file}
    /\ pcFetch' = "get"
    /\ UNCHANGED << manifest_file, manifest, processed, root_idx, walk_idx, run,
                    parserVars >>

\* Line 92: sftp.get raises during the transfer.
GetRaises ==
    /\ pcFetch = "get"
    /\ Continue(local_fs)
    /\ UNCHANGED << manifest_file, manifest, processed, root_idx, run, attempts,
                    parserVars >>

\* Line 92: sftp.get returns.
GetReturns ==
    /\ pcFetch = "get"
    /\ pcFetch' = "replace"
    /\ UNCHANGED << manifest_file, manifest, processed, local_fs, root_idx, walk_idx,
                    run, attempts, status,
                    parserVars >>

\* Line 93: os.replace(tmp_file, local_file), then the test of line 100.
Replace ==
    /\ pcFetch = "replace"
    /\ local_fs' = (local_fs \ {tmp_file}) \cup {local_file}
    /\ IF IsZip(local_file.name)
       THEN /\ pcFetch' = "unzip"
            /\ UNCHANGED status
       ELSE /\ pcFetch' = "add"
            /\ status' = [status EXCEPT ![local_file] = "complete"]
    /\ UNCHANGED << manifest_file, manifest, processed, root_idx, walk_idx, run, attempts,
                    parserVars >>

\* Line 93: os.replace raises.
ReplaceRaises ==
    /\ pcFetch = "replace"
    /\ Continue(local_fs)
    /\ UNCHANGED << manifest_file, manifest, processed, root_idx, run, attempts,
                    parserVars >>

\* Lines 102-104: extractall into the directory of the archive, then remove
\* the archive.
Unzip ==
    /\ pcFetch = "unzip"
    /\ local_fs' = (local_fs \cup { Path(local_root, m) : m \in ZipMembers(rel_path) })
                       \ {local_file}
    /\ status' = [status EXCEPT ![local_file] = "complete"]
    /\ pcFetch' = "add"
    /\ UNCHANGED << manifest_file, manifest, processed, root_idx, walk_idx, run, attempts,
                    parserVars >>

\* Mutant of UnzipRaises: the failed extraction falls through to line 110.
UnzipRaises_Records ==
    /\ pcFetch = "unzip"
    /\ \E written \in SUBSET ZipMembers(rel_path) :
           local_fs' = local_fs \cup { Path(local_root, m) : m \in written }
    /\ status' = [status EXCEPT ![local_file] = "failed"]
    /\ pcFetch' = "add"
    /\ UNCHANGED << manifest_file, manifest, processed, root_idx, walk_idx, run, attempts,
                    parserVars >>

\* Lines 102-108: ZipFile, extractall or os.remove raises, some members
\* possibly written; the archive stays and the loop goes on.
UnzipRaises ==
    /\ pcFetch = "unzip"
    /\ \E written \in SUBSET ZipMembers(rel_path) :
           Continue(local_fs \cup { Path(local_root, m) : m \in written })
    /\ UNCHANGED << manifest_file, manifest, processed, root_idx, run, attempts,
                    parserVars >>

\* Line 110: processed.add(rel_path). When the set came from the manifest it
\* is the same object, so the manifest in memory changes with it.
Record ==
    /\ pcFetch = "add"
    /\ processed' = processed \cup {rel_path}
    /\ manifest' = IF local_root \in DOMAIN manifest
                   THEN [manifest EXCEPT ![local_root] = processed \cup {rel_path}]
                   ELSE manifest
    /\ walk_idx' = walk_idx + 1
    /\ pcFetch' = "walk"
    /\ UNCHANGED << manifest_file, local_fs, root_idx, run, attempts, status,
                    parserVars >>

\* Line 111: the listing of the root is exhausted.
LeaveRoot ==
    /\ pcFetch = "walk" /\ walk_idx > Len(walk_remote(remote_root))
    /\ manifest' = (local_root :> processed) @@ manifest
    /\ root_idx' = root_idx + 1
    /\ pcFetch' = "roots"
    /\ UNCHANGED << manifest_file, processed, local_fs, walk_idx, run, attempts, status,
                    parserVars >>

\* Line 113: save_manifest(manifest); the call returns.
SaveManifest ==
    /\ pcFetch = "roots" /\ root_idx > Len(remote_to_local)
    /\ manifest_file' = manifest
    /\ pcFetch' = "idle"
    /\ UNCHANGED << manifest, processed, local_fs, root_idx, walk_idx, run, attempts, status,
                    parserVars >>

NextFetch ==
    \/ StartRun
    \/ EnterRoot
    \/ WalkRaises
    \/ Skip
    \/ GetRaisesAtOpen
    \/ StartGet
    \/ GetRaises
    \/ GetReturns
    \/ Replace
    \/ ReplaceRaises
    \/ Unzip
    \/ UnzipRaises
    \/ Record
    \/ LeaveRoot
    \/ SaveManifest

SpecFetch == Init /\ [][NextFetch]_vars

\* ========================================================================
\* Properties
\* ========================================================================

\* The committed rows that carry the instance id of file f.
FileRows(rows, f) ==
    { r \in BagToSet(rows) : r.record["instance_id"] = normalize_base_name(f) }

InFile == pcFile \in {"decode", "tx", "returned"}

\* C1 -- All-or-nothing gate: once a line of the file is in the not-inserted
\* bucket, the transaction of that file is never begun, no row is inserted in
\* it, and no row of the file is committed; this still holds after the file's
\* processing has ended.
Thm_C1 ==
    /\ (InFile /\ not_inserted_records # << >>) =>
           (CurFile \notin began /\ txRows = EmptyBag /\ FileRows(dbRows, CurFile) = {})
    /\ \A f \in DOMAIN outcome :
           outcome[f] = "not_inserted" => (f \notin began /\ FileRows(dbRows, f) = {})

\* C1 witness: process_file returned for a file with one line not inserted
\* and another line decoded into a destination table's bucket.
Wit_C1 ==
    /\ pcFile = "returned"
    /\ not_inserted_records # << >>
    /\ parsed_data_per_table # << >>

\* C2 -- Atomicity across tables: when process_file has returned because the
\* insert into some table raised, nothing of the transaction is left, no row
\* of the file is committed in any destination table, and the file ended as
\* failed with that error recorded.
Thm_C2 ==
    \A k \in DOMAIN parsed_data_per_table : \A j \in DOMAIN failed_records :
        (pcFile = "returned"
            /\ failed_records[j][2] = ErrInsert(parsed_data_per_table[k].table)) =>
        (txRows = EmptyBag /\ FileRows(dbRows, CurFile) = {}
            /\ outcome[CurFile] = "failed")

\* C2 witness: the insert into the second table raised after the insert into
\* the first table had succeeded.
Wit_C2 ==
    /\ pcFile = "returned"
    /\ \E k \in DOMAIN parsed_data_per_table : \E j \in DOMAIN failed_records :
          k >= 2 /\ failed_records[j][2] = ErrInsert(parsed_data_per_table[k].table)

\* The router has finished with file f: the loop went past it, or the sweep
\* ended on it.
Routed(f) ==
    \E k \in DOMAIN listing :
        listing[k] = f /\ f \in DOMAIN outcome
            /\ (k < idx \/ (k = idx /\ pcDir = "aborted"))

TargetOf(kind) ==
    CASE kind = "success" -> SuccessFolder
      [] kind = "not_inserted" -> NoMetadataFolder
      [] kind = "failed" -> FailedFolder

\* C3 -- Routing rule: a routed file is in 'Processed Successfully' when it
\* had no failure, in 'No Matching Metadata' when a line was not inserted, in
\* 'Failed' when it failed otherwise.
CE_C3 == \A f \in StagedFiles : Routed(f) => f \in dir[TargetOf(outcome[f])]

\* C4 -- Terminal outcome: when the sweep has ended, every file whose
\* processing was started has left the staging folder and is in exactly one
\* of the three terminal folders.
CE_C4 ==
    pcDir \in {"done", "aborted"} =>
        \A f \in started :
            /\ f \notin dir[Staging]
            /\ Cardinality({ d \in TerminalFolders : f \in dir[d] }) = 1

\* C5 -- Failure containment across files: when the sweep has ended, every
\* regular file of the listing was processed, whatever happened to the others.
CE_C5 == pcDir \in {"done", "aborted"} => \A k \in DOMAIN listing : listing[k] \in started

\* C6 -- The failed-insert log is written on any failure: when process_file
\* returns failed records, FAILED_INSERT_<base>.txt exists in the staging
\* folder with one line per failed record.
CE_C6 ==
    (pcFile = "returned" /\ failed_records # << >>) =>
        /\ Exists(dir, Staging, fail_log_name(base_file_name))
        /\ fail_log_name(base_file_name) \in DOMAIN logs
        /\ Len(logs[fail_log_name(base_file_name)]) = Len(failed_records)

RECURSIVE TotalRecords(_)
TotalRecords(per_table) ==
    IF per_table = << >> THEN 0
    ELSE Len(Head(per_table).records) + TotalRecords(Tail(per_table))

\* C7 -- No line is lost or duplicated: when every decode task was collected,
\* the records of the buckets and the not-inserted lines are as many as the
\* lines of the file, and every not-inserted entry is a line of the file.
CE_C7 ==
    (pcFile = "decode" /\ AllCollected) =>
        /\ TotalRecords(parsed_data_per_table) + Len(not_inserted_records) = Len(file_lines)
        /\ \A k \in DOMAIN not_inserted_records :
               \E i \in Tasks : file_lines[i] = not_inserted_records[k]

ScnRecord(instance_id) ==
    [code |-> <<"A", "B", "C">>, amt |-> <<"1", "2", "3", "4", "5">>, instance_id |-> instance_id]

ScnDecoded(instance_id) ==
    [actual_data_table |-> "abc_data", parsed_record |-> ScnRecord(instance_id),
     original_line |-> NoneLine]

\* C8 (as claimed) -- with the registry mapping "ABC01", process_line decodes
\* the line "ABC01    12345" into abc_data as {code: "ABC", amt: "12345",
\* instance_id}.
CE_C8 ==
    (ret.called /\ arg.line = ScnLine /\ arg.table_map = RegABC01) =>
        ret.value = ScnDecoded(arg.instance_id)

\* C8 (amended) -- the key of "ABC01    12345" is "ABC34" (positions [0,3)
\* and [11,13)): with the registry mapping "ABC34" to ABC_META / abc_data the
\* line decodes into abc_data as {code: "ABC", amt: "12345", instance_id};
\* with the registry mapping only "ABC01" it is returned as not inserted.
Thm_C8 ==
    (ret.called /\ arg.line = ScnLine) =>
        /\ identify_table(arg.line, RegABC34) = ScnEntry
        /\ arg.table_map = RegABC34 => ret.value = ScnDecoded(arg.instance_id)
        /\ arg.table_map = RegABC01 => ret.value = NotInserted(arg.line)

\* C8 witness: the scenario line was decoded under the registry keyed "ABC34".
Wit_C8 ==
    /\ ret.called /\ arg.line = ScnLine /\ arg.table_map = RegABC34
    /\ ret.value.actual_data_table = "abc_data"

\* C9 -- normalize_base_name returns, for a name with any stack of transient
\* prefixes in front of base X and the extension .txt, what it returns for
\* "X.txt".
CE_C9 ==
    (ret.called /\ ret.calls = 1 /\ arg.ext = DotTxt) =>
        ret.value = normalize_base_name(arg.base \o DotTxt)

\* The column definition is usable for the line: offsets not null, range
\* within the line.
InRange(line, c) ==
    /\ c.start_pstn # NaN /\ c.element_lgth # NaN
    /\ 0 <= c.start_pstn[1] - 1
    /\ (c.start_pstn[1] - 1) + c.element_lgth[1] <= Len(line)

\* line[start-1 : start-1+length], trimmed.
FieldText(line, c) ==
    Strip(PySlice(line, c.start_pstn[1] - 1, (c.start_pstn[1] - 1) + c.element_lgth[1]))

\* C10 -- Decode field set: the record of parse_line has a field exactly for
\* the names of the column definitions whose range is within the line, and
\* the field's value is the trimmed text of that range (of the last such
\* definition of the name).
Thm_C10 ==
    ret.called =>
        LET line == arg.line
            md == arg.metadata
            usable == { i \in DOMAIN md : InRange(line, md[i]) }
        IN  /\ DOMAIN ret.value = { md[i].db_element_name : i \in usable }
            /\ \A i \in usable :
                   (\A j \in usable : md[j].db_element_name = md[i].db_element_name => j <= i)
                       => ret.value[md[i].db_element_name] = FieldText(line, md[i])

\* C10 witness: one column in range with a non-empty value, another column
\* out of range and absent from the record.
Wit_C10 ==
    /\ ret.called
    /\ \E i, j \in DOMAIN arg.metadata :
          /\ InRange(arg.line, arg.metadata[i])
          /\ ret.value[arg.metadata[i].db_element_name] # << >>
          /\ arg.metadata[j].start_pstn # NaN /\ arg.metadata[j].element_lgth # NaN
          /\ ~InRange(arg.line, arg.metadata[j])
          /\ arg.metadata[j].db_element_name \notin DOMAIN ret.value

\* The composite key of a line: the trimmed text at [0,3) followed by the
\* trimmed text at [11,13).
KeyOf(line) == Strip(PySlice(line, 0, 3)) \o Strip(PySlice(line, 11, 13))

\* C11 -- Unresolvable key: for a line whose composite key is not in the
\* registry, process_line returns no table, no record and the original line,
\* queries the store for no metadata and leaves the metadata cache as it was.
Thm_C11 ==
    (ret.called /\ KeyOf(arg.line) \notin DOMAIN arg.table_map) =>
        /\ ret.value.actual_data_table = NoneName
        /\ ret.value.parsed_record = NoneRecord
        /\ ret.value.original_line = arg.line
        /\ ret.fetched = << >>
        /\ ret.cache = arg.metadata_cache

\* C11 witness: a full-length line with an unknown key was processed against
\* a non-empty registry and a non-empty cache.
Wit_C11 ==
    /\ ret.called
    /\ KeyOf(arg.line) \notin DOMAIN arg.table_map
    /\ Len(arg.line) > 13
    /\ arg.table_map # << >>
    /\ arg.metadata_cache # << >>

\* The schema table line i of the open file resolves to, and whether the
\* store has no column definitions to give for it.
TableOf(i) == identify_table(file_lines[i], TableMap)
Resolved(i) == KeyOf(file_lines[i]) \in DOMAIN TableMap
Unavailable(i) ==
    Resolved(i) /\ fetch_metadata_for_table(MetaStore, TableOf(i).src_table) = << >>

InSeq(x, seq) == \E k \in DOMAIN seq : seq[k] = x

\* C12 -- Unavailable metadata: when the fetch for the table of a line gives
\* zero columns or fails, the decode task of the line ends without an
\* exception and returns the line as not inserted, the line is collected in
\* the not-inserted bucket, and process_file does not end in success, so the
\* file is not in 'Processed Successfully'.
Thm_C12 ==
    InFile =>
        \A i \in Tasks :
            Unavailable(i) =>
                /\ task[i] \in {"done", "collected"} =>
                       (~IsRaised(result[i]) /\ result[i] = NotInserted(file_lines[i]))
                /\ task[i] = "collected" => InSeq(file_lines[i], not_inserted_records)
                /\ CurFile \notin began
                /\ CurFile \in DOMAIN outcome => outcome[CurFile] # "success"
                /\ CurFile \notin dir[SuccessFolder]

\* C12 witness: a file with a line of a table that has zero columns and a
\* line of a table whose query fails has been processed to its end.
Wit_C12 ==
    /\ pcFile = "returned"
    /\ \E i, j \in Tasks :
           /\ Unavailable(i) /\ MetaStore[TableOf(i).src_table].ok
           /\ Unavailable(j) /\ ~MetaStore[TableOf(j).src_table].ok

\* C13 -- Decode before load: while process_file runs, the transaction has
\* begun or holds inserted rows only if every decode task of the file has
\* been collected and the not-inserted bucket is empty; while a decode task
\* is queued, running or not yet collected, no row of the file has been
\* inserted, committed or not.
Thm_C13 ==
    /\ (InFile /\ (CurFile \in began \/ pcFile = "tx" \/ txRows # EmptyBag)) =>
           (AllCollected /\ not_inserted_records = << >>)
    /\ (InFile /\ ~AllCollected) =>
           (txRows = EmptyBag /\ FileRows(dbRows, CurFile) = {})

\* C13 witness: the transaction of a file of two lines holds inserted rows.
Wit_C13 ==
    /\ pcFile = "tx"
    /\ Len(file_lines) >= 2
    /\ txRows # EmptyBag
    /\ \E i \in Tasks : TableOf(i).src_table \in queried

\* The rows of all the buckets, and the entries of a list, as multisets.
RECURSIVE BucketRows(_)
BucketRows(per_table) ==
    IF per_table = << >> THEN EmptyBag
    ELSE RowsOf(Head(per_table).table, Head(per_table).records) (+)
         BucketRows(Tail(per_table))

RECURSIVE EntriesOf(_)
EntriesOf(seq) ==
    IF seq = << >> THEN EmptyBag ELSE SetToBag({Head(seq)}) (+) EntriesOf(Tail(seq))

\* The buckets a run of the decode tasks one after the other, in line order,
\* leaves: process_line on each line with the cache the lines before left,
\* and the collection rule of lines 135-142.
RECURSIVE InLineOrder(_, _, _)
InLineOrder(lines, k, st) ==
    IF k > Len(lines) THEN st
    ELSE LET r == process_line(lines[k], TableMap, st.cache, base_file_name, MetaStore)
             v == r.ret
             kept == ~IsRaised(v) /\ Truthy(v.actual_data_table)
                         /\ v.parsed_record # NoneRecord
             left == IsRaised(v) \/ (~kept /\ v.original_line # NoneLine)
         IN  InLineOrder(lines, k + 1,
                 [cache |-> r.cache,
                  rows |-> IF kept
                           THEN st.rows (+) SetToBag({Row(v.actual_data_table, v.parsed_record)})
                           ELSE st.rows,
                  not_inserted |-> IF left
                                   THEN st.not_inserted (+) SetToBag({lines[k]})
                                   ELSE st.not_inserted])

Sequential ==
    InLineOrder(file_lines, 1,
                [cache |-> << >>, rows |-> EmptyBag, not_inserted |-> EmptyBag])

\* C14 -- Completion-order independence: whatever the interleaving and the
\* completion order of the decode tasks, once all are collected the records
\* of the buckets and the not-inserted lines are, as multisets, those of the
\* run in line order, every table has one bucket, and the file fails the
\* gate exactly when that run leaves a not-inserted line.
Thm_C14 ==
    (InFile /\ AllCollected) =>
        /\ BucketRows(parsed_data_per_table) = Sequential.rows
        /\ EntriesOf(not_inserted_records) = Sequential.not_inserted
        /\ \A k, l \in DOMAIN parsed_data_per_table :
               parsed_data_per_table[k].table = parsed_data_per_table[l].table => k = l
        /\ CurFile \in began => Sequential.not_inserted = EmptyBag
        /\ (pcFile = "returned" /\ Sequential.not_inserted # EmptyBag) =>
               outcome[CurFile] = "not_inserted"

\* C14 witness: the tasks of two different lines were collected in the
\* order opposite to the line order.
Wit_C14 ==
    /\ InFile /\ AllCollected
    /\ Len(file_lines) = 2 /\ file_lines[1] # file_lines[2]
    /\ \/ not_inserted_records = << file_lines[2], file_lines[1] >>
       \/ /\ Len(parsed_data_per_table) = 2
          /\ parsed_data_per_table[1].table = TableOf(2).parsed_data

\* C15 -- Lazy population of the metadata cache under concurrent misses: in
\* every state of a process_file call, an entry of the cache is the complete,
\* non-empty column definitions the store gives for its table; a table the
\* store was queried for and has columns for is in the cache from then on;
\* and the result of every finished task of a line of such a table is the
\* decode of the line with those column definitions.
Thm_C15 ==
    InFile =>
        /\ \A t \in DOMAIN metadata_cache :
               /\ metadata_cache[t] = fetch_metadata_for_table(MetaStore, t)
               /\ metadata_cache[t] # << >>
        /\ \A t \in queried :
               fetch_metadata_for_table(MetaStore, t) # << >> => t \in DOMAIN metadata_cache
        /\ \A i \in Tasks :
               (Resolved(i) /\ ~Unavailable(i) /\ task[i] \in {"done", "collected"}) =>
                   /\ TableOf(i).src_table \in DOMAIN metadata_cache
                   /\ result[i] =
                          parse_and_stamp(file_lines[i], TableOf(i).parsed_data,
                              fetch_metadata_for_table(MetaStore, TableOf(i).src_table),
                              base_file_name)

\* C15 witness: two tasks missed on the same table; one has fetched and
\* written the entry and decoded its line, the other is still to fetch and
\* write it again.
Wit_C15 ==
    /\ pcFile = "decode"
    /\ \E i, j \in Tasks :
           /\ i # j
           /\ TableOf(i).src_table = TableOf(j).src_table
           /\ task[i] = "fetching" /\ task[j] \in {"done", "collected"}
           /\ TableOf(i).src_table \in DOMAIN metadata_cache
           /\ ~IsRaised(result[j]) /\ result[j].parsed_record # NoneRecord

\* C16 -- An empty fetch result is cached as unavailable: no decode task
\* misses the cache, and so goes on to query the store, for a table the store
\* has already been queried for during this file.
CE_C16 ==
    [][ \A i \in Tasks :
            (pcFile = "decode" /\ i \in DOMAIN task'
                /\ task[i] = "queued" /\ task'[i] = "fetching") =>
                TableOf(i).src_table \notin queried ]_vars

\* What the loop of lines 133-142 does with the finished task of line i:
\* its record goes to a bucket, or its line to the not-inserted list.
Kept(i) ==
    /\ ~IsRaised(result[i])
    /\ Truthy(result[i].actual_data_table) /\ result[i].parsed_record # NoneRecord
Left(i) ==
    \/ IsRaised(result[i])
    \/ ~Kept(i) /\ result[i].original_line # NoneLine

CollectedTasks == { i \in Tasks : task[i] = "collected" }

BucketOf(table) ==
    IF \E k \in DOMAIN parsed_data_per_table : parsed_data_per_table[k].table = table
    THEN (CHOOSE b \in { parsed_data_per_table[k] : k \in DOMAIN parsed_data_per_table } :
              b.table = table).records
    ELSE << >>

Count(x, seq) == Cardinality({ k \in DOMAIN seq : seq[k] = x })

\* C17 -- Per-line exception containment: the line of a decode task that
\* raised is in the not-inserted list once the task is collected, as many
\* times as tasks of that line were left out; the records of the other
\* collected tasks are in their buckets, unchanged and as many as those
\* tasks; and process_file has reached its except branch or its transaction
\* only with every task collected, the error then being that of the gate.
Thm_C17 ==
    InFile =>
        /\ \A i \in CollectedTasks :
               IsRaised(result[i]) =>
                   Count(file_lines[i], not_inserted_records) =
                       Cardinality({ j \in CollectedTasks :
                                        Left(j) /\ file_lines[j] = file_lines[i] })
        /\ \A i \in CollectedTasks :
               Kept(i) =>
                   Count(result[i].parsed_record, BucketOf(result[i].actual_data_table)) =
                       Cardinality({ j \in CollectedTasks :
                                        Kept(j) /\ result[j] = result[i] })
        /\ TotalRecords(parsed_data_per_table) =
               Cardinality({ i \in CollectedTasks : Kept(i) })
        /\ Len(not_inserted_records) = Cardinality({ i \in CollectedTasks : Left(i) })
        /\ pcFile \in {"tx", "returned"} => AllCollected
        /\ (pcFile = "returned" /\ \E i \in Tasks : IsRaised(result[i])) =>
               failed_records = << << NoneName, ErrGate >> >>

\* C17 witness: process_file has returned for a file of which one decode
\* task raised and another gave a record.
Wit_C17 ==
    /\ pcFile = "returned"
    /\ \E i, j \in Tasks : IsRaised(result[i]) /\ Kept(j)
    /\ parsed_data_per_table # << >>

\* The lines of the open file that cannot be decoded: the key is not in the
\* registry, the store has no column definitions for the table, or parse_line
\* raises on them.
Undecodable ==
    { i \in Tasks :
        \/ ~Resolved(i)
        \/ Unavailable(i)
        \/ parse_line_raises(fetch_metadata_for_table(MetaStore, TableOf(i).src_table)) }

LogEntry(line) == line \o << "\n" >>

\* C18 -- Not-inserted diagnostic log: when process_file has returned, the
\* file NO_MATCHING_METADATA_<base>.txt is beside the source file exactly
\* when some line of the file is un-decodable; its entries are then the
\* un-decodable lines, each written once per occurrence and followed by a
\* newline, and nothing else; a call that ended in success has left neither
\* diagnostic file.
Thm_C18 ==
    pcFile = "returned" =>
        LET nl == not_inserted_log_name(base_file_name)
            fl == fail_log_name(base_file_name)
        IN  /\ (nl \in dir[Staging]) = (Undecodable # {})
            /\ (nl \in DOMAIN logs) = (nl \in dir[Staging])
            /\ nl \in DOMAIN logs =>
                   /\ Len(logs[nl]) = Cardinality(Undecodable)
                   /\ \A i \in Undecodable :
                          Count(LogEntry(file_lines[i]), logs[nl]) =
                              Cardinality({ j \in Undecodable : file_lines[j] = file_lines[i] })
                   /\ \A i \in Tasks \ Undecodable :
                          Count(LogEntry(file_lines[i]), logs[nl]) = 0
            /\ outcome[CurFile] = "success" =>
                   \A f \in Folders : nl \notin dir[f] /\ fl \notin dir[f]

\* C18 witness: process_file has returned for a file with a decoded line and
\* an un-decodable one, and the log holds one entry.
Wit_C18 ==
    /\ pcFile = "returned"
    /\ not_inserted_log_name(base_file_name) \in DOMAIN logs
    /\ Len(logs[not_inserted_log_name(base_file_name)]) = 1
    /\ Len(file_lines) = 2
    /\ parsed_data_per_table # << >>

\* The relative paths recorded for a local root: in the manifest file, in
\* the manifest in memory, and in the processed set while its root is the
\* one of the loop.
Saved(root) == IF root \in DOMAIN manifest_file THEN manifest_file[root] ELSE {}
Recorded(root) ==
    Saved(root) \cup
    (IF root \in DOMAIN manifest THEN manifest[root] ELSE {}) \cup
    (IF pcFetch \in {"walk", "get", "replace", "unzip", "add"} /\ root = local_root
     THEN processed ELSE {})

PartFiles == { f \in local_fs : EndsWith(f.name, DotPart) }

\* C19 -- Resumable fetch manifest: a recorded path is one whose latest
\* download completed, with the .part file renamed to the final name and,
\* for a .zip, the archive extracted and removed; a path being downloaded is
\* in neither the processed set nor the manifest file; a .part file exists
\* only during a download; and a path whose latest download or extraction
\* failed is not recorded.
Thm_C19 ==
    /\ \A p \in AllPaths :
           p.name \in Recorded(p.root) =>
               /\ status[p] = "complete"
               /\ attempts[p] >= 1
               /\ Path(p.root, p.name \o DotPart) \notin local_fs
               /\ IF IsZip(p.name)
                  THEN /\ p \notin local_fs
                       /\ \A m \in ZipMembers(p.name) : Path(p.root, m) \in local_fs
                  ELSE p \in local_fs
    /\ pcFetch = "add" => status[local_file] = "complete"
    /\ pcFetch \in {"get", "replace", "unzip", "add"} =>
           (rel_path \notin processed /\ rel_path \notin Saved(local_root))
    /\ \A p \in AllPaths : p.name \in Saved(p.root) => attempts[p] <= run
    /\ pcFetch \notin {"get", "replace"} => PartFiles = {}
    /\ pcFetch \in {"get", "replace"} => PartFiles = {tmp_file}
    /\ \A p \in AllPaths :
           status[p] = "failed" => p.name \notin Recorded(p.root)

\* C19 witness: in a second call, a path of the manifest file was skipped
\* and an archive whose first download failed has been downloaded again,
\* extracted and recorded.
Wit_C19 ==
    /\ run = 2 /\ pcFetch = "walk"
    /\ RelTxt \in Saved(local_root)
    /\ attempts[Path(local_root, RelTxt)] = 1
    /\ RelZip \in processed
    /\ attempts[Path(local_root, RelZip)] = 2
====
